---- MODULE Spec2Model ----
(***************************************************************************)
(* Sun-ray / ripple canvas animation of SlimShady (src/ripple.js lines     *)
(* 43-1162 and src/sunrays.js), modelled as a state machine.               *)
(*                                                                         *)
(* Arithmetic.  The scripts compute with IEEE doubles; the model computes  *)
(* with exact rationals on a fixed grid:                                   *)
(*   - canvas sides are whole multiples of 5 px,  so that every fraction   *)
(*     of the viewport used by initializePositions (two decimals) is a     *)
(*     whole number of coordinate units; a coordinate unit is 1/CU px;     *)
(*   - distances along a ray (t, hitDistance, length, radius, maxRadius)   *)
(*     are counted in t-units, TS t-units to one coordinate unit;          *)
(*   - a direction is a rational point (dx/den, dy/den) of the unit        *)
(*     circle.  Angles 0, 90, 180 and 270 degrees are the directions the   *)
(*     scripts really use whose cosine and sine are rational (Math.sin and *)
(*     Math.cos give 0 or a value below 1e-15 there, which the 0.001 test  *)
(*     treats alike); the 3-4-5 directions stand for the generic rays and  *)
(*     segments, whose components all exceed 0.001 in absolute value;      *)
(*   - Math.sqrt is the integer square root, exact on perfect squares.     *)
(* The pointer never moves (parallaxTarget stays 0), so the per-frame      *)
(* parallax assignment o.x = o.baseX + parallaxX * kx leaves o.x = o.baseX.*)
(*                                                                         *)
(* Specifications:                                                         *)
(*   Spec      the running animation: frames, timers, resizes, the clock,  *)
(*             from the state the script leaves when it has run (with or   *)
(*             without its canvas on the page);                            *)
(*   SpecLife  one ripple, update() called on it again and again;          *)
(*   SpecGeom  one ray and one ripple segment cast over a scene given as   *)
(*             input (origin, direction and obstacles drawn from sets);    *)
(*   SpecFrame one frame of the animation, statement by statement;         *)
(*   SpecMap   the map page (src/map.js): initialization, city switches,   *)
(*             area clicks, returns to the overview, and the responses of  *)
(*             the fetches in flight, in any interleaving.                 *)
(***************************************************************************)
EXTENDS Integers, Sequences, FiniteSets, TLC

VARIABLES
  variant,         \* which script runs: "ripple" (src/ripple.js) or "sunrays"
  canvas,          \* [width, height] of the canvas, px
  sunX, sunY,      \* sun position, coordinate units
  horizonY,        \* horizon line, coordinate units
  obstacles,       \* sequence of building / tree records
  rays,            \* sequence of SunRay records
  ripples,         \* the ripple pool
  lastRippleTime,  \* ms, as in the script
  time,            \* animation clock, counted in frames (time += 0.02 each)
  now,             \* Date.now(), ms
  timers,          \* pending setTimeout callbacks: set of [due, kind]
  probe,           \* a single Ripple that update() is called on repeatedly
  stillAlive,      \* what the last probe.update() returned
  calls,           \* number of update() calls made on the probe
  frameRequested,  \* requestAnimationFrame(animate) is outstanding
  listeners,       \* events of window the script listens to
  warned,          \* console.warn('sunRaysCanvas not found') was called
  uncaught,        \* the script ended by an exception nothing caught
  lastSpawnTime,   \* history: Date.now() when a ripple was last pushed to the pool
  frame,           \* statements of animate() executed in the current or last frame
  \* the map page (src/map.js)
  currentCity,        \* key of CITY_CONFIG
  mapInitialized,     \* the Leaflet map exists
  buurtenLayer,       \* overview layer the script refers to, or Null
  currentBuurtLayer,  \* detail layer the script refers to, or Null
  attachedLayers,     \* data layers attached to the Leaflet map
  loadedBuurten,      \* detail cache: area code -> parsed response
  isDetailView,
  loadingShown,       \* #loadingIndicator carries the class 'show'
  infoPanel,          \* [active, kind, subject] of #infoPanel
  pending,            \* fetches in flight, one record per suspended load
  fetchCount,         \* fetches issued so far
  hitCount,           \* clicks served from the cache so far
  rejected            \* loads whose promise was rejected (the error escaped)

startVars == <<frameRequested, listeners, warned, uncaught>>

sceneVars == <<variant, canvas, sunX, sunY, horizonY, obstacles, rays, ripples,
               lastRippleTime, time, now, timers, probe, stillAlive, calls,
               frameRequested, listeners, warned, uncaught, lastSpawnTime, frame>>

mapVars == <<currentCity, mapInitialized, buurtenLayer, currentBuurtLayer,
             attachedLayers, loadedBuurten, isDetailView, loadingShown, infoPanel,
             pending, fetchCount, hitCount, rejected>>

vars == <<variant, canvas, sunX, sunY, horizonY, obstacles, rays, ripples,
          lastRippleTime, time, now, timers, probe, stillAlive, calls,
          frameRequested, listeners, warned, uncaught, lastSpawnTime, frame,
          currentCity, mapInitialized, buurtenLayer, currentBuurtLayer,
          attachedLayers, loadedBuurten, isDetailView, loadingShown, infoPanel,
          pending, fetchCount, hitCount, rejected>>

-----------------------------------------------------------------------------
(* Units and program constants *)

CU == 100 \div 5     \* coordinate units per pixel (fractions are hundredths)
TS == 12 * 100       \* t-units per coordinate unit (thirds, quarters, 0.9, 0.95 exact)
PX == CU * TS       \* t-units per pixel

Null == -1          \* JavaScript null returned by the distance functions

NUM_RAYS == 150
RIPPLE_INTERVAL == 2000

Variants == {"ripple", "sunrays"}

MAX_CONCURRENT_RIPPLES_ripple == 5
MAX_CONCURRENT_RIPPLES_sunrays == 3

MAX_CONCURRENT_RIPPLES(v) ==
  IF v = "ripple" THEN MAX_CONCURRENT_RIPPLES_ripple
                  ELSE MAX_CONCURRENT_RIPPLES_sunrays

(* Bounds of the model *)
MaxSideSteps == 1   \* canvas sides are 5, ... 5 * MaxSideSteps px, and
WideSideSteps == 20 \*   5 * WideSideSteps px (the sun clear of every obstacle)
MaxFrames == 4      \* frames animated in one behaviour
MaxClockSteps == 2  \* the clock runs ClockStep * MaxClockSteps ms past load

ClockStep == 2100   \* granularity of the modelled clock, ms (a bound)
Epoch == 3000       \* Date.now() when the script starts (a bound; > RIPPLE_INTERVAL)

Sides == {5 * k : k \in (1..MaxSideSteps) \cup {WideSideSteps}}
Viewports == [width : Sides, height : Sides]

Min(a, b) == IF a < b THEN a ELSE b
Max(a, b) == IF a > b THEN a ELSE b
Abs(a) == IF a < 0 THEN -a ELSE a

-----------------------------------------------------------------------------
(* Directions: Math.cos(angle) = dx/den, Math.sin(angle) = dy/den *)

DirTable == <<
  [dx |->  1, dy |->  0, den |-> 1],   \* 0 degrees: ray 0, segment 0
  [dx |->  0, dy |->  1, den |-> 1],   \* 90 degrees: segment 180
  [dx |-> -1, dy |->  0, den |-> 1],   \* 180 degrees: ray NUM_RAYS/2, segment 360
  [dx |->  0, dy |-> -1, den |-> 1],   \* 270 degrees: segment 540
  [dx |->  3, dy |->  4, den |-> 5],
  [dx |->  4, dy |->  3, den |-> 5],
  [dx |-> -3, dy |->  4, den |-> 5],
  [dx |-> -4, dy |->  3, den |-> 5],
  [dx |-> -3, dy |-> -4, den |-> 5],
  [dx |-> -4, dy |-> -3, den |-> 5],
  [dx |->  3, dy |-> -4, den |-> 5],
  [dx |->  4, dy |-> -3, den |-> 5] >>

Angles == 1..Len(DirTable)

\* The rays and ripple segments followed through a run of the script; the
\* other directions are exercised on scenes drawn as inputs.
TrackedAngles == <<1, 2, 3, 7>>

\* |Math.cos(angle)| > 0.001, resp. |Math.sin(angle)| > 0.001
NonNegligible(n, den) == Abs(n) * 1000 > den

\* Math.sqrt on the grid: the largest s with s*s <= n
RECURSIVE SqrtBetween(_, _, _)
SqrtBetween(n, lo, hi) ==
  IF lo >= hi THEN lo
  ELSE LET mid == (lo + hi + 1) \div 2
       IN IF mid * mid <= n THEN SqrtBetween(n, mid, hi)
                            ELSE SqrtBetween(n, lo, mid - 1)

Sqrt(n) == SqrtBetween(n, 0, 46340)

-----------------------------------------------------------------------------
(* Scene model: initializePositions *)

\* canvas.width * f, canvas.height * f for a two-decimal fraction f = f100/100,
\* in coordinate units
Frac(px, f100) == (px * f100 * CU) \div 100

building(cv, hy, xf, hf, widthPx) ==
  [type |-> "building",
   x |-> Frac(cv.width, xf),
   y |-> hy - Frac(cv.height, hf),
   width |-> widthPx * CU,
   height |-> Frac(cv.height, hf)]

\* a plausible defect: the tree's height above the horizon taken as a
\* percentage of the canvas height instead of a number of pixels
tree_offsetAsPercent(cv, hy, xf, offPx, radiusPx) ==
  [type |-> "tree",
   x |-> Frac(cv.width, xf),
   y |-> hy - Frac(cv.height, offPx),
   radius |-> radiusPx * CU]

tree(cv, hy, xf, offPx, radiusPx) ==
  [type |-> "tree",
   x |-> Frac(cv.width, xf),
   y |-> hy - offPx * CU,
   radius |-> radiusPx * CU]

HorizonFrac(v) == IF v = "ripple" THEN 82 ELSE 75

initSunX(cv) == Frac(cv.width, 80)
initSunY(cv) == Frac(cv.height, 20)
initHorizonY(v, cv) == Frac(cv.height, HorizonFrac(v))

initObstacles(v, cv) ==
  LET hy == initHorizonY(v, cv) IN
  IF v = "ripple" THEN
    << building(cv, hy, 10, 40, 60),
       building(cv, hy, 18, 35, 45),
       building(cv, hy, 25, 45, 50),
       building(cv, hy, 40, 25, 40),
       building(cv, hy, 48, 30, 35),
       tree(cv, hy, 34, 18, 38),
       tree(cv, hy, 50, 14, 32),
       tree(cv, hy, 61, 22, 44),
       building(cv, hy, 70, 22, 34),
       building(cv, hy, 75, 15, 35),
       building(cv, hy, 82, 18, 25) >>
  ELSE
    << building(cv, hy, 10, 40, 60),
       building(cv, hy, 18, 35, 45),
       building(cv, hy, 25, 45, 50),
       building(cv, hy, 40, 25, 40),
       building(cv, hy, 48, 30, 35),
       tree(cv, hy, 35, 15, 30),
       tree(cv, hy, 55, 10, 25),
       tree(cv, hy, 62, 20, 35),
       building(cv, hy, 70, 20, 30),
       building(cv, hy, 75, 15, 35),
       building(cv, hy, 82, 18, 25) >>

-----------------------------------------------------------------------------
(* Ray caster: class SunRay.  A ray is [angle, length, blocked, hitDistance]; *)
(* sx, sy are the globals sunX, sunY and obs the global obstacles.            *)

\* (edge - origin) / Math.cos(angle), in t-units; n/den is the component
Along(edge, origin, n, den) ==
  IF n > 0 THEN ((edge - origin) * den * TS) \div n
           ELSE -(((edge - origin) * den * TS) \div (-n))

\* a plausible defect: the exit distance returned instead of the entry distance
SunRay_distanceToRectangle_exit(ray, rect, sx, sy) ==
  LET d == DirTable[ray.angle]
      left == rect.x
      right == rect.x + rect.width
      top == rect.y
      bottom == rect.y + rect.height
      xs == NonNegligible(d.dx, d.den)
      ys == NonNegligible(d.dy, d.den)
      tx1 == IF xs THEN Along(left, sx, d.dx, d.den) ELSE 0
      tx2 == IF xs THEN Along(right, sx, d.dx, d.den) ELSE 0
      tMinX == IF xs THEN Max(0, Min(tx1, tx2)) ELSE 0
      tMaxX == IF xs THEN Min(ray.length, Max(tx1, tx2)) ELSE ray.length
      ty1 == IF ys THEN Along(top, sy, d.dy, d.den) ELSE 0
      ty2 == IF ys THEN Along(bottom, sy, d.dy, d.den) ELSE 0
      tMin == IF ys THEN Max(tMinX, Min(ty1, ty2)) ELSE tMinX
      tMax == IF ys THEN Min(tMaxX, Max(ty1, ty2)) ELSE tMaxX
  IN IF tMin <= tMax /\ tMin > 0 THEN tMax ELSE Null

SunRay_distanceToRectangle(ray, rect, sx, sy) ==
  LET d == DirTable[ray.angle]
      left == rect.x
      right == rect.x + rect.width
      top == rect.y
      bottom == rect.y + rect.height
      xs == NonNegligible(d.dx, d.den)
      ys == NonNegligible(d.dy, d.den)
      tx1 == IF xs THEN Along(left, sx, d.dx, d.den) ELSE 0
      tx2 == IF xs THEN Along(right, sx, d.dx, d.den) ELSE 0
      tMinX == IF xs THEN Max(0, Min(tx1, tx2)) ELSE 0
      tMaxX == IF xs THEN Min(ray.length, Max(tx1, tx2)) ELSE ray.length
      ty1 == IF ys THEN Along(top, sy, d.dy, d.den) ELSE 0
      ty2 == IF ys THEN Along(bottom, sy, d.dy, d.den) ELSE 0
      tMin == IF ys THEN Max(tMinX, Min(ty1, ty2)) ELSE tMinX
      tMax == IF ys THEN Min(tMaxX, Max(ty1, ty2)) ELSE tMaxX
  IN IF tMin <= tMax /\ tMin > 0 THEN tMin ELSE Null

\* The quadratic of distanceToCircle with everything multiplied through by
\* den: a = 1, b = CircleB/den, discriminant = CircleDisc/den^2, and t1 is
\* (-CircleB - sqrt(CircleDisc)) / (2*den) coordinate units.
CircleB(d, cx, cy) == 2 * (d.dx * cx + d.dy * cy)
CircleC(cx, cy, radius) == cx * cx + cy * cy - radius * radius
CircleDisc(d, cx, cy, radius) ==
  CircleB(d, cx, cy) * CircleB(d, cx, cy)
    - 4 * d.den * d.den * CircleC(cx, cy, radius)

SunRay_distanceToCircle(ray, circle, sx, sy) ==
  LET d == DirTable[ray.angle]
      cx == circle.x - sx
      cy == circle.y - sy
      b == CircleB(d, cx, cy)
      discriminant == CircleDisc(d, cx, cy, circle.radius)
      t1 == (-b - Sqrt(discriminant)) * (TS \div (2 * d.den))
  IN IF discriminant >= 0 /\ t1 > 0 THEN t1 ELSE Null

\* if (distance && distance < this.hitDistance)
Truthy(distance) == distance # Null /\ distance # 0

SunRay_distance(ray, obstacle, sx, sy) ==
  IF obstacle.type = "building" THEN SunRay_distanceToRectangle(ray, obstacle, sx, sy)
  ELSE IF obstacle.type = "tree" THEN SunRay_distanceToCircle(ray, obstacle, sx, sy)
  ELSE Null

RECURSIVE SunRay_checkLoop(_, _, _, _, _)
SunRay_checkLoop(ray, obs, i, sx, sy) ==
  IF i > Len(obs) THEN ray
  ELSE LET distance == SunRay_distance(ray, obs[i], sx, sy)
       IN IF Truthy(distance) /\ distance < ray.hitDistance
          THEN SunRay_checkLoop([ray EXCEPT !.hitDistance = distance, !.blocked = TRUE],
                                obs, i + 1, sx, sy)
          ELSE SunRay_checkLoop(ray, obs, i + 1, sx, sy)

SunRay_checkObstacles(ray, obs, sx, sy) ==
  SunRay_checkLoop([ray EXCEPT !.blocked = FALSE, !.hitDistance = ray.length],
                   obs, 1, sx, sy)

\* update(): the opacity oscillation does not enter any modelled field
SunRay_update(ray, obs, sx, sy) == SunRay_checkObstacles(ray, obs, sx, sy)

RayLength(v, cv) == (Min(cv.width, cv.height) * 11 * PX) \div 10

\* const baseOpacity = 0.10 + Math.random() * 0.05, in thousandths: the draws
\* of one start of the script, one per tracked ray
BaseOpacityDraws == {<<100, 125, 149, 110>>, <<149, 100, 100, 137>>}

SunRay(angle, length, baseOpacity) ==
  [angle |-> angle, length |-> length, baseOpacity |-> baseOpacity,
   blocked |-> FALSE, hitDistance |-> length]

-----------------------------------------------------------------------------
(* Ripple emitter: class Ripple.  A ripple is                                 *)
(* [x, y, radius, maxRadius, opacity, speed, segments]; opacity is the        *)
(* fraction num/den; a segment is [angle, maxRadius].                         *)

RippleSpeed == (15 * PX) \div 10          \* this.speed = 1.5
ShrinkNum == 9                            \* distance * 0.9
ShrinkDen == 10

RippleMaxRadius(v, cv) == (Min(cv.width, cv.height) * 8 * PX) \div 10

Ripple_distanceToRectangle(rp, angle, rect) ==
  LET d == DirTable[angle]
      left == rect.x
      right == rect.x + rect.width
      top == rect.y
      bottom == rect.y + rect.height
      xs == NonNegligible(d.dx, d.den)
      ys == NonNegligible(d.dy, d.den)
      tx1 == IF xs THEN Along(left, rp.x, d.dx, d.den) ELSE 0
      tx2 == IF xs THEN Along(right, rp.x, d.dx, d.den) ELSE 0
      tMinX == IF xs THEN Max(0, Min(tx1, tx2)) ELSE 0
      tMaxX == IF xs THEN Min(rp.maxRadius, Max(tx1, tx2)) ELSE rp.maxRadius
      ty1 == IF ys THEN Along(top, rp.y, d.dy, d.den) ELSE 0
      ty2 == IF ys THEN Along(bottom, rp.y, d.dy, d.den) ELSE 0
      tMin == IF ys THEN Max(tMinX, Min(ty1, ty2)) ELSE tMinX
      tMax == IF ys THEN Min(tMaxX, Max(ty1, ty2)) ELSE tMaxX
  IN IF tMin <= tMax /\ tMin > 0 THEN tMin ELSE Null

Ripple_distanceToCircle(rp, angle, circle) ==
  LET d == DirTable[angle]
      cx == circle.x - rp.x
      cy == circle.y - rp.y
      b == CircleB(d, cx, cy)
      discriminant == CircleDisc(d, cx, cy, circle.radius)
      t1 == (-b - Sqrt(discriminant)) * (TS \div (2 * d.den))
  IN IF discriminant >= 0 /\ t1 > 0 THEN t1 ELSE Null

\* The street-canyon script (src/unnamed/part_000): Math.min(t1, t2) is returned
Canyon_Ripple_distanceToCircle(rp, angle, circle) ==
  LET d == DirTable[angle]
      cx == circle.x - rp.x
      cy == circle.y - rp.y
      b == CircleB(d, cx, cy)
      discriminant == CircleDisc(d, cx, cy, circle.radius)
      t1 == (-b - Sqrt(discriminant)) * (TS \div (2 * d.den))
      t2 == (-b + Sqrt(discriminant)) * (TS \div (2 * d.den))
      minT == Min(t1, t2)
  IN IF discriminant >= 0 /\ minT > 0 THEN minT ELSE Null

Ripple_distance(rp, angle, obstacle) ==
  IF obstacle.type = "building" THEN Ripple_distanceToRectangle(rp, angle, obstacle)
  ELSE IF obstacle.type = "tree" THEN Ripple_distanceToCircle(rp, angle, obstacle)
  ELSE Null

RECURSIVE Ripple_findLoop(_, _, _, _, _)
Ripple_findLoop(rp, angle, obs, i, minDistance) ==
  IF i > Len(obs) THEN minDistance
  ELSE LET distance == Ripple_distance(rp, angle, obs[i])
       IN IF Truthy(distance) /\ distance < minDistance
          THEN Ripple_findLoop(rp, angle, obs, i + 1,
                               (distance * ShrinkNum) \div ShrinkDen)
          ELSE Ripple_findLoop(rp, angle, obs, i + 1, minDistance)

Ripple_findObstacleDistance(rp, angle, obs) ==
  Ripple_findLoop(rp, angle, obs, 1, rp.maxRadius)

\* for (angle = 0; angle < 360; angle += 0.5), restricted to the angles angs
Ripple_calculateSegments(rp, obs, angs) ==
  [i \in 1..Len(angs) |->
     [angle |-> angs[i],
      maxRadius |-> Ripple_findObstacleDistance(rp, angs[i], obs)]]

Ripple(v, cv, x, y, obs, angs) ==
  LET fresh == [x |-> x, y |-> y, radius |-> 0,
                maxRadius |-> RippleMaxRadius(v, cv),
                opacity |-> [num |-> 1, den |-> 1],
                speed |-> RippleSpeed,
                segments |-> << >>]
  IN [fresh EXCEPT !.segments = Ripple_calculateSegments(fresh, obs, angs)]

\* opacity > 0.01
Visible(opacity) == opacity.num * 100 > opacity.den

\* a plausible defect: the opacity computed without Math.max(0, ...)
Ripple_update_noClamp(rp) ==
  LET radius == rp.radius + rp.speed
      opacity == IF rp.maxRadius = 0 THEN [num |-> 0, den |-> 1]
                 ELSE [num |-> rp.maxRadius - radius, den |-> rp.maxRadius]
  IN [ripple |-> [rp EXCEPT !.radius = radius, !.opacity = opacity],
      alive |-> radius < rp.maxRadius /\ Visible(opacity)]

\* a plausible defect: the radius is not advanced
Ripple_update_noGrowth(rp) ==
  LET radius == rp.radius
      opacity == IF rp.maxRadius = 0 THEN [num |-> 0, den |-> 1]
                 ELSE [num |-> Max(0, rp.maxRadius - radius), den |-> rp.maxRadius]
  IN [ripple |-> [rp EXCEPT !.radius = radius, !.opacity = opacity],
      alive |-> radius < rp.maxRadius /\ Visible(opacity)]

\* update(): the ripple after the call and the value returned.  With
\* maxRadius = 0 the quotient is Infinity and Math.max(0, -Infinity) is 0.
Ripple_update(rp) ==
  LET radius == rp.radius + rp.speed
      opacity == IF rp.maxRadius = 0 THEN [num |-> 0, den |-> 1]
                 ELSE [num |-> Max(0, rp.maxRadius - radius), den |-> rp.maxRadius]
  IN [ripple |-> [rp EXCEPT !.radius = radius, !.opacity = opacity],
      alive |-> radius < rp.maxRadius /\ Visible(opacity)]

-----------------------------------------------------------------------------
(* Animation driver *)

\* ripples.splice(i, 1)
Splice(rs, i) == [k \in 1..(Len(rs) - 1) |-> IF k < i THEN rs[k] ELSE rs[k + 1]]

\* a plausible defect: <= where the script has <
createRipple_atMost(v, cv, rs, sx, sy, obs, angs) ==
  IF Len(rs) <= MAX_CONCURRENT_RIPPLES(v)
  THEN Append(rs, Ripple(v, cv, sx, sy, obs, angs))
  ELSE rs

\* if (ripples.length < MAX_CONCURRENT_RIPPLES) ripples.push(new Ripple(sunX, sunY))
createRipple(v, cv, rs, sx, sy, obs, angs) ==
  IF Len(rs) < MAX_CONCURRENT_RIPPLES(v)
  THEN Append(rs, Ripple(v, cv, sx, sy, obs, angs))
  ELSE rs

RECURSIVE updateLoop(_, _)

\* a plausible defect: the loop run forwards, for (let i = 0; i < ripples.length; i++)
updateLoop_forward(rs, i) ==
  LET RECURSIVE go(_, _)
      go(cur, k) ==
        IF k > Len(cur) THEN cur
        ELSE LET u == Ripple_update(cur[k])
             IN go(IF u.alive THEN [cur EXCEPT ![k] = u.ripple] ELSE Splice(cur, k),
                   k + 1)
  IN go(rs, 1)

\* for (let i = ripples.length - 1; i >= 0; i--) if (!ripples[i].update()) splice
updateLoop(rs, i) ==
  IF i < 1 THEN rs
  ELSE LET u == Ripple_update(rs[i])
       IN updateLoop(IF u.alive THEN [rs EXCEPT ![i] = u.ripple] ELSE Splice(rs, i),
                     i - 1)

\* a plausible defect: the interval test left out
SpawnDue_everyFrame(currentTime, last) == TRUE

\* if (currentTime - lastRippleTime > RIPPLE_INTERVAL)
SpawnDue(currentTime, last) == currentTime - last > RIPPLE_INTERVAL

updateRipples(v, cv, rs, sx, sy, obs, angs, currentTime, last) ==
  LET kept == updateLoop(rs, Len(rs))
  IN IF SpawnDue(currentTime, last)
     THEN createRipple(v, cv, kept, sx, sy, obs, angs)
     ELSE kept

updateRays(rs, obs, sx, sy) ==
  [i \in 1..Len(rs) |-> SunRay_update(rs[i], obs, sx, sy)]

\* for (let i = 0; i < NUM_RAYS; i++), restricted to the angles angs
createRays(v, cv, angs, draws) ==
  [i \in 1..Len(angs) |-> SunRay(angs[i], RayLength(v, cv), draws[i])]

\* map.js before DOMContentLoaded: the globals of lines 73 and 153-158, the
\* info panel and the loading indicator as the page delivers them
NoPanel == [active |-> FALSE, kind |-> "empty", subject |-> <<"", 0>>]

Cities == {"amsterdam", "capetown"}

MaxAreas == 2   \* areas (neighbourhoods, wards) in a city's statsFile

\* values of props[config.idField] in the statsFile of a city
AreasOf(city) == {<<city, k>> : k \in 1..MaxAreas}
AllAreas == UNION {AreasOf(c) : c \in Cities}
NoArea == <<"", 0>>

NoData == 0   \* loadedBuurten.has(key) is false

\* null, as the value of buurtenLayer and currentBuurtLayer
NoLayer == [kind |-> "none", city |-> "", area |-> NoArea, data |-> NoData,
            id |-> <<"", 0>>, listening |-> FALSE]

MapNotLoaded ==
  /\ currentCity = "amsterdam"
  /\ mapInitialized = FALSE
  /\ buurtenLayer = NoLayer
  /\ currentBuurtLayer = NoLayer
  /\ attachedLayers = {}
  /\ loadedBuurten = [a \in AllAreas |-> NoData]
  /\ isDetailView = FALSE
  /\ loadingShown = FALSE
  /\ infoPanel = NoPanel
  /\ pending = {}
  /\ fetchCount = 0
  /\ hitCount = 0
  /\ rejected = {}

NoProbe == [radius |-> 0, maxRadius |-> 0, opacity |-> [num |-> 1, den |-> 1],
            speed |-> RippleSpeed]

FirstTimer == [due |-> Epoch + 1500, kind |-> "first"]

\* setTimeout(createRipple, 300); setTimeout(createRipple, 600): ripple.js only
FollowUps(v, t, at) ==
  IF v = "ripple" /\ t.kind = "first"
  THEN {[due |-> at + 300, kind |-> "more"], [due |-> at + 600, kind |-> "more"]}
  ELSE {}

\* document.getElementById('sunRaysCanvas') returned null
NoCanvas == [width |-> Null, height |-> Null]

\* a plausible defect: the clock advanced before the rays are updated and drawn
animateBody_timeFirst(v) ==
  IF v = "ripple"
  THEN <<"fillRect", "parallax", "updateRipples", "drawRipples", "drawShadows",
         "drawPromenades", "drawCycleLanes", "drawCrosswalks", "drawFurniture",
         "time", "rays", "drawSun", "drawHorizonCityscape", "drawVignette",
         "updatePedestrians", "drawPedestrians", "drawCyclists",
         "drawExposureMeter", "requestAnimationFrame">>
  ELSE <<"fillRect", "updateRipples", "drawRipples", "time", "rays", "drawSun",
         "drawHorizonCityscape", "requestAnimationFrame">>

\* The statements of animate() in the order of the source.  "rays" is the loop
\* for (const ray of rays) { ray.update(); ray.draw(); } and "time" is
\* time += 0.02.
animateBody(v) ==
  IF v = "ripple"
  THEN <<"fillRect", "parallax", "updateRipples", "drawRipples", "drawShadows",
         "drawPromenades", "drawCycleLanes", "drawCrosswalks", "drawFurniture",
         "rays", "drawSun", "drawHorizonCityscape", "drawVignette",
         "updatePedestrians", "drawPedestrians", "drawCyclists",
         "drawExposureMeter", "time", "requestAnimationFrame">>
  ELSE <<"fillRect", "updateRipples", "drawRipples", "rays", "drawSun",
         "drawHorizonCityscape", "time", "requestAnimationFrame">>

\* window.addEventListener(...): 'resize' in both scripts, 'mousemove' in ripple.js
Listeners(v) == IF v = "ripple" THEN {"resize", "mousemove"} ELSE {"resize"}

\* The canvas exists and the script has run to its end: the scene is built, the
\* rays exist, the listeners are registered, the first animate() call has run
\* and has requested the next frame, and the start-up timer is pending.
Started ==
  /\ sunX = initSunX(canvas)
  /\ sunY = initSunY(canvas)
  /\ horizonY = initHorizonY(variant, canvas)
  /\ obstacles = initObstacles(variant, canvas)
  /\ ripples = updateRipples(variant, canvas, << >>, sunX, sunY, obstacles,
                             TrackedAngles, Epoch, 0)
  /\ lastRippleTime = Epoch
  /\ \E draws \in BaseOpacityDraws :
       rays = updateRays(createRays(variant, canvas, TrackedAngles, draws),
                         obstacles, sunX, sunY)
  /\ time = 1
  /\ timers = {FirstTimer}
  /\ frameRequested = TRUE
  /\ listeners = Listeners(variant)
  /\ warned = FALSE
  /\ frame = animateBody(variant)
  /\ uncaught = FALSE
  /\ lastSpawnTime = (IF ripples # << >> THEN Epoch ELSE 0)

\* The canvas does not exist.  ripple.js tests it, warns and returns from the
\* DOMContentLoaded handler (lines 44-48); sunrays.js calls canvas.getContext
\* on null at its second line, a TypeError that ends the script.
CanvasMissing ==
  /\ sunX = 0
  /\ sunY = 0
  /\ horizonY = 0
  /\ obstacles = << >>
  /\ ripples = << >>
  /\ lastRippleTime = 0
  /\ rays = << >>
  /\ time = 0
  /\ timers = {}
  /\ frameRequested = FALSE
  /\ listeners = {}
  /\ warned = (variant = "ripple")
  /\ frame = << >>
  /\ uncaught = (variant = "sunrays")
  /\ lastSpawnTime = 0

\* The state when the script has run: to its end, or to where it stopped.
Init ==
  /\ variant \in Variants
  /\ canvas \in Viewports \cup {NoCanvas}
  /\ now = Epoch
  /\ IF canvas = NoCanvas THEN CanvasMissing ELSE Started
  /\ probe = NoProbe
  /\ stillAlive = TRUE
  /\ calls = 0
  /\ MapNotLoaded

\* the pool holds a ripple that was pushed and has not been updated yet
Pushed(rs) == \E i \in 1..Len(rs) : rs[i].radius = 0

\* animate(): one frame
Animate ==
  /\ frameRequested
  /\ time < MaxFrames
  /\ ripples' = updateRipples(variant, canvas, ripples, sunX, sunY, obstacles,
                              TrackedAngles, now, lastRippleTime)
  /\ lastRippleTime' = IF SpawnDue(now, lastRippleTime) THEN now ELSE lastRippleTime
  /\ rays' = updateRays(rays, obstacles, sunX, sunY)
  /\ time' = time + 1
  /\ frame' = animateBody(variant)
  /\ UNCHANGED mapVars
  /\ UNCHANGED startVars
  /\ lastSpawnTime' = IF Pushed(ripples') THEN now ELSE lastSpawnTime
  /\ UNCHANGED <<variant, canvas, sunX, sunY, horizonY, obstacles, now, timers,
                 probe, stillAlive, calls>>

\* a plausible defect: the handler without ripples.length = 0
Resize_keepRipples(cv) ==
  /\ "resize" \in listeners
  /\ canvas' = cv
  /\ sunX' = initSunX(cv)
  /\ sunY' = initSunY(cv)
  /\ horizonY' = initHorizonY(variant, cv)
  /\ obstacles' = initObstacles(variant, cv)
  /\ rays' = [i \in 1..Len(rays) |-> [rays[i] EXCEPT !.length = RayLength(variant, cv)]]
  /\ UNCHANGED mapVars
  /\ UNCHANGED startVars
  /\ UNCHANGED frame
  /\ UNCHANGED lastSpawnTime
  /\ UNCHANGED <<variant, ripples, lastRippleTime, time, now, timers, probe, stillAlive, calls>>

\* a plausible defect: the handler builds the rays anew
Resize_newRays(cv) ==
  /\ "resize" \in listeners
  /\ canvas' = cv
  /\ sunX' = initSunX(cv)
  /\ sunY' = initSunY(cv)
  /\ horizonY' = initHorizonY(variant, cv)
  /\ obstacles' = initObstacles(variant, cv)
  /\ rays' = [i \in 1..Len(rays) |->
               SunRay(rays[i].angle, RayLength(variant, cv), rays[i].baseOpacity)]
  /\ ripples' = << >>
  /\ UNCHANGED mapVars
  /\ UNCHANGED startVars
  /\ UNCHANGED frame
  /\ UNCHANGED lastSpawnTime
  /\ UNCHANGED <<variant, lastRippleTime, time, now, timers, probe, stillAlive, calls>>

\* window 'resize' listener
Resize(cv) ==
  /\ "resize" \in listeners
  /\ canvas' = cv
  /\ sunX' = initSunX(cv)
  /\ sunY' = initSunY(cv)
  /\ horizonY' = initHorizonY(variant, cv)
  /\ obstacles' = initObstacles(variant, cv)
  /\ rays' = [i \in 1..Len(rays) |-> [rays[i] EXCEPT !.length = RayLength(variant, cv)]]
  /\ ripples' = << >>
  /\ UNCHANGED mapVars
  /\ UNCHANGED startVars
  /\ UNCHANGED frame
  /\ UNCHANGED lastSpawnTime
  /\ UNCHANGED <<variant, lastRippleTime, time, now, timers, probe, stillAlive, calls>>

\* a setTimeout callback runs
TimerFire(t) ==
  /\ t \in timers
  /\ t.due <= now
  /\ ripples' = createRipple(variant, canvas, ripples, sunX, sunY, obstacles,
                             TrackedAngles)
  /\ timers' = (timers \ {t}) \cup FollowUps(variant, t, now)
  /\ UNCHANGED mapVars
  /\ UNCHANGED startVars
  /\ UNCHANGED frame
  /\ lastSpawnTime' = IF Len(ripples') > Len(ripples) THEN now ELSE lastSpawnTime
  /\ UNCHANGED <<variant, canvas, sunX, sunY, horizonY, obstacles, rays,
                 lastRippleTime, time, now, probe, stillAlive, calls>>

\* wall-clock time passes
Tick ==
  /\ now < Epoch + ClockStep * MaxClockSteps
  /\ now' = now + ClockStep
  /\ UNCHANGED mapVars
  /\ UNCHANGED startVars
  /\ UNCHANGED frame
  /\ UNCHANGED lastSpawnTime
  /\ UNCHANGED <<variant, canvas, sunX, sunY, horizonY, obstacles, rays, ripples,
                 lastRippleTime, time, timers, probe, stillAlive, calls>>

Next ==
  \/ Animate
  \/ \E cv \in Viewports : Resize(cv)
  \/ \E t \in timers : TimerFire(t)
  \/ Tick

Spec == Init /\ [][Next]_vars

------------------------------------------------------------------------------
(* One frame followed statement by statement (specification SpecFrame): the   *)
(* callback runs the statements of animate() one after the other, and no      *)
(* other handler runs before it has returned.                                 *)

\* animate() has started and has not returned
InFrame == 0 < Len(frame) /\ Len(frame) < Len(animateBody(variant))

InitFrame ==
  /\ variant \in Variants
  /\ canvas \in Viewports
  /\ now = Epoch
  /\ Started
  /\ probe = NoProbe
  /\ stillAlive = TRUE
  /\ calls = 0
  /\ MapNotLoaded

\* the next statement of animate(); the first one when the browser calls the
\* callback that requestAnimationFrame registered
FrameStep ==
  LET body == animateBody(variant)
      starting == ~InFrame
      done == IF starting THEN << >> ELSE frame
      stmt == body[Len(done) + 1]
  IN /\ starting => frameRequested /\ time < MaxFrames
     /\ frame' = Append(done, stmt)
     /\ frameRequested' = IF stmt = "requestAnimationFrame" THEN TRUE
                          ELSE IF starting THEN FALSE ELSE frameRequested
     /\ IF stmt = "updateRipples"
        THEN /\ ripples' = updateRipples(variant, canvas, ripples, sunX, sunY,
                                         obstacles, TrackedAngles, now, lastRippleTime)
             /\ lastRippleTime' = IF SpawnDue(now, lastRippleTime) THEN now
                                  ELSE lastRippleTime
             /\ lastSpawnTime' = IF Pushed(ripples') THEN now ELSE lastSpawnTime
        ELSE UNCHANGED <<ripples, lastRippleTime, lastSpawnTime>>
     /\ rays' = IF stmt = "rays" THEN updateRays(rays, obstacles, sunX, sunY) ELSE rays
     /\ time' = IF stmt = "time" THEN time + 1 ELSE time
     /\ UNCHANGED mapVars
     /\ UNCHANGED <<listeners, warned, uncaught>>
     /\ UNCHANGED <<variant, canvas, sunX, sunY, horizonY, obstacles, now, timers,
                    probe, stillAlive, calls>>

NextFrame ==
  \/ FrameStep
  \/ ~InFrame /\ Tick
  \/ ~InFrame /\ \E cv \in Viewports : Resize(cv)

SpecFrame == InitFrame /\ [][NextFrame]_vars

-----------------------------------------------------------------------------
(* One ripple followed through its life: update() is called on it again and  *)
(* again, as animate() does once a frame for as long as it is in the pool     *)
(* (specification SpecLife).  Calls made after update() has returned false    *)
(* are included, up to MaxLifeCalls calls in all.                             *)

MaxLifeSideSteps == 4   \* canvas sides are 0, 5, ... 5 * MaxLifeSideSteps px
MaxLifeCalls == 8       \* calls counted; calls after the ripple's end stop here

LifeSides == {5 * k : k \in 0..MaxLifeSideSteps}
LifeViewports == [width : LifeSides, height : LifeSides]

InitLife ==
  /\ variant \in Variants
  /\ canvas \in LifeViewports
  /\ sunX = initSunX(canvas)
  /\ sunY = initSunY(canvas)
  /\ horizonY = initHorizonY(variant, canvas)
  /\ obstacles = << >>
  /\ rays = << >>
  /\ ripples = << >>
  /\ lastRippleTime = 0
  /\ time = 0
  /\ now = Epoch
  /\ timers = {}
  /\ probe = Ripple(variant, canvas, sunX, sunY, obstacles, << >>)
  /\ stillAlive = TRUE
  /\ calls = 0
  /\ frameRequested = FALSE
  /\ listeners = {}
  /\ warned = FALSE
  /\ frame = << >>
  /\ uncaught = FALSE
  /\ lastSpawnTime = 0
  /\ MapNotLoaded

\* const alive = probe.update()
LifeUpdate ==
  /\ stillAlive \/ calls < MaxLifeCalls
  /\ probe' = Ripple_update(probe).ripple
  /\ stillAlive' = Ripple_update(probe).alive
  /\ calls' = Min(calls + 1, MaxLifeCalls)
  /\ UNCHANGED mapVars
  /\ UNCHANGED startVars
  /\ UNCHANGED frame
  /\ UNCHANGED lastSpawnTime
  /\ UNCHANGED <<variant, canvas, sunX, sunY, horizonY, obstacles, rays, ripples,
                 lastRippleTime, time, now, timers>>

NextLife == LifeUpdate

\* the calls are repeated: a frame always follows (requestAnimationFrame)
SpecLife == InitLife /\ [][NextLife]_vars /\ WF_vars(LifeUpdate)

-----------------------------------------------------------------------------
(* One ray and one ripple segment cast over a scene given as input: any       *)
(* origin, any direction of DirTable, any list of obstacles (specification    *)
(* SpecGeom).  Positions are given in px.                                     *)

MaxGeomSideSteps == 2   \* canvas sides are 100, ... 100 * MaxGeomSideSteps px

GeomSides == {100 * k : k \in 1..MaxGeomSideSteps}
GeomViewports == [width : GeomSides, height : GeomSides]

rectPx(x, y, w, h) ==
  [type |-> "building", x |-> x * CU, y |-> y * CU, width |-> w * CU, height |-> h * CU]

circlePx(x, y, r) == [type |-> "tree", x |-> x * CU, y |-> y * CU, radius |-> r * CU]

GeomOrigins == {<<0, 150>>, <<200, 0>>, <<120, 120>>}

GeomScenes ==
  LET R1 == rectPx(100, 100, 50, 100)
      R2 == rectPx(160, 40, 30, 20)
      T1 == circlePx(200, 200, 20)
      R3 == rectPx(110, 140, 20, 20)
      T2 == circlePx(150, 160, 20)
  IN { << >>, <<R1>>, <<R2>>, <<R3>>, <<T1>>, <<T2>>,
       <<R1, R2>>, <<R2, R1>>, <<R1, T1>>, <<T2, R2>>, <<T1, T2>>,
       <<R1, R3>>, <<R3, R1>> }

InitGeom ==
  /\ variant \in Variants
  /\ canvas \in GeomViewports
  /\ \E o \in GeomOrigins : sunX = o[1] * CU /\ sunY = o[2] * CU
  /\ horizonY = initHorizonY(variant, canvas)
  /\ obstacles \in GeomScenes
  /\ \E a \in Angles, draws \in BaseOpacityDraws :
       rays = createRays(variant, canvas, <<a>>, draws)
  /\ ripples = << >>
  /\ lastRippleTime = 0
  /\ time = 0
  /\ now = Epoch
  /\ timers = {}
  /\ probe = NoProbe
  /\ stillAlive = TRUE
  /\ calls = 0
  /\ frameRequested = FALSE
  /\ listeners = {}
  /\ warned = FALSE
  /\ frame = << >>
  /\ uncaught = FALSE
  /\ lastSpawnTime = 0
  /\ MapNotLoaded

\* rays.forEach(ray => ray.update())
GeomCast ==
  /\ time = 0
  /\ rays' = updateRays(rays, obstacles, sunX, sunY)
  /\ time' = time + 1
  /\ UNCHANGED mapVars
  /\ UNCHANGED startVars
  /\ UNCHANGED frame
  /\ UNCHANGED lastSpawnTime
  /\ UNCHANGED <<variant, canvas, sunX, sunY, horizonY, obstacles, ripples,
                 lastRippleTime, now, timers, probe, stillAlive, calls>>

\* createRipple(), the segments restricted to the direction of the ray
GeomSpawn ==
  /\ ripples = << >>
  /\ ripples' = createRipple(variant, canvas, ripples, sunX, sunY, obstacles,
                             [i \in 1..Len(rays) |-> rays[i].angle])
  /\ UNCHANGED mapVars
  /\ UNCHANGED startVars
  /\ UNCHANGED frame
  /\ UNCHANGED lastSpawnTime
  /\ UNCHANGED <<variant, canvas, sunX, sunY, horizonY, obstacles, rays,
                 lastRippleTime, time, now, timers, probe, stillAlive, calls>>

NextGeom ==
  \/ GeomCast
  \/ GeomSpawn

SpecGeom == InitGeom /\ [][NextGeom]_vars

-----------------------------------------------------------------------------
(* Plane geometry of a ray and an obstacle, computed exactly.  The ray starts *)
(* at (ox, oy), runs in direction d = DirTable[angle] and is len t-units long *)
(* (len is a whole number of coordinate units here).                          *)

\* the point of the ray t t-units from its origin, in units of 1/(d.den * TS)
\* coordinate unit
PointX(ox, d, t) == ox * d.den * TS + t * d.dx
PointY(oy, d, t) == oy * d.den * TS + t * d.dy

InRectangle(ox, oy, d, t, rect) ==
  LET u == d.den * TS IN
  /\ rect.x * u <= PointX(ox, d, t)
  /\ PointX(ox, d, t) <= (rect.x + rect.width) * u
  /\ rect.y * u <= PointY(oy, d, t)
  /\ PointY(oy, d, t) <= (rect.y + rect.height) * u

OnRectangleBoundary(ox, oy, d, t, rect) ==
  LET u == d.den * TS IN
  /\ InRectangle(ox, oy, d, t, rect)
  /\ \/ PointX(ox, d, t) = rect.x * u
     \/ PointX(ox, d, t) = (rect.x + rect.width) * u
     \/ PointY(oy, d, t) = rect.y * u
     \/ PointY(oy, d, t) = (rect.y + rect.height) * u

OutsideRectangle(ox, oy, rect) ==
  \/ ox < rect.x \/ ox > rect.x + rect.width
  \/ oy < rect.y \/ oy > rect.y + rect.height

\* the t at which a coordinate that starts at origin and moves n/den per unit
\* of t reaches edge (n # 0)
Reach(edge, origin, n, den) ==
  IF n > 0 THEN ((edge - origin) * den * TS) \div n
           ELSE ((origin - edge) * den * TS) \div (-n)

\* the first and the last t >= 0 at which the line of the ray is inside the
\* slabs of the rectangle that it is not parallel to
RectEnter(ox, oy, d, rect) ==
  LET ex == IF d.dx = 0 THEN 0
            ELSE Min(Reach(rect.x, ox, d.dx, d.den),
                     Reach(rect.x + rect.width, ox, d.dx, d.den))
      ey == IF d.dy = 0 THEN 0
            ELSE Min(Reach(rect.y, oy, d.dy, d.den),
                     Reach(rect.y + rect.height, oy, d.dy, d.den))
  IN Max(0, Max(ex, ey))

RectLeave(ox, oy, d, len, rect) ==
  LET lx == IF d.dx = 0 THEN len
            ELSE Max(Reach(rect.x, ox, d.dx, d.den),
                     Reach(rect.x + rect.width, ox, d.dx, d.den))
      ly == IF d.dy = 0 THEN len
            ELSE Max(Reach(rect.y, oy, d.dy, d.den),
                     Reach(rect.y + rect.height, oy, d.dy, d.den))
  IN Min(len, Min(lx, ly))

\* some point of the ray lies in the (closed) rectangle
RectangleCrossed(ox, oy, d, len, rect) ==
  /\ d.dx = 0 => (rect.x <= ox /\ ox <= rect.x + rect.width)
  /\ d.dy = 0 => (rect.y <= oy /\ oy <= rect.y + rect.height)
  /\ RectEnter(ox, oy, d, rect) <= RectLeave(ox, oy, d, len, rect)

\* With c the vector from the origin to the centre, the point t coordinate
\* units along the ray is on the circle iff t^2 - 2 t (d.c) + |c|^2 - r^2 = 0,
\* so the line meets the circle at t = (Dot -+ sqrt(Quarter)) / den.
Dot(d, cx, cy) == d.dx * cx + d.dy * cy
PowerOfOrigin(cx, cy, radius) == cx * cx + cy * cy - radius * radius
Quarter(d, cx, cy, radius) ==
  Dot(d, cx, cy) * Dot(d, cx, cy) - d.den * d.den * PowerOfOrigin(cx, cy, radius)

\* the circle is ahead of an origin outside it and the ray reaches it at a
\* distance below len (or at most len, when inclusive)
CircleReached(ox, oy, d, len, circle, inclusive) ==
  LET cx == circle.x - ox
      cy == circle.y - oy
      dot == Dot(d, cx, cy)
      q == Quarter(d, cx, cy, circle.radius)
      m == (len * d.den) \div TS
  IN /\ PowerOfOrigin(cx, cy, circle.radius) > 0
     /\ q >= 0
     /\ dot > 0
     /\ \/ dot < m
        \/ inclusive /\ dot = m
        \/ dot > m /\ (IF inclusive THEN (dot - m) * (dot - m) <= q
                                    ELSE (dot - m) * (dot - m) < q)

\* some point of the ray lies in the (closed) disc
CircleCrossed(ox, oy, d, len, circle) ==
  \/ PowerOfOrigin(circle.x - ox, circle.y - oy, circle.radius) <= 0
  \/ CircleReached(ox, oy, d, len, circle, TRUE)

Crossed(ox, oy, angle, len, obstacle) ==
  IF obstacle.type = "building"
  THEN RectangleCrossed(ox, oy, DirTable[angle], len, obstacle)
  ELSE CircleCrossed(ox, oy, DirTable[angle], len, obstacle)

\* the obstacle lies along the direction, ahead of an origin outside it, at a
\* distance below len
LiesAhead(ox, oy, angle, len, obstacle) ==
  LET d == DirTable[angle] IN
  IF obstacle.type = "building"
  THEN /\ OutsideRectangle(ox, oy, obstacle)
       /\ RectangleCrossed(ox, oy, d, len, obstacle)
       /\ RectEnter(ox, oy, d, obstacle) < len
  ELSE CircleReached(ox, oy, d, len, obstacle, FALSE)

\* The point t t-units along the ray is on the circle, within one grid step of
\* the square root: with k = 2 den t / TS,
\*   |point - centre|^2 - r^2 = ((k - 2 Dot)^2 - 4 Quarter) / (4 den^2).
OnCircle(ox, oy, d, t, circle) ==
  LET cx == circle.x - ox
      cy == circle.y - oy
      k == t \div (TS \div (2 * d.den))
      q4 == 4 * Quarter(d, cx, cy, circle.radius)
  IN /\ q4 >= 0
     /\ Abs(Abs(k - 2 * Dot(d, cx, cy)) - Sqrt(q4)) <= 1

\* the ray points at the centre of the circle
PointsAtCentre(ox, oy, d, circle) ==
  /\ d.dx * (circle.y - oy) = d.dy * (circle.x - ox)
  /\ Dot(d, circle.x - ox, circle.y - oy) > 0

\* the distance from the origin to the centre, for a ray that points at it
CentreDistance(ox, oy, d, circle) ==
  (Dot(d, circle.x - ox, circle.y - oy) * TS) \div d.den

-----------------------------------------------------------------------------
(* Properties of the running animation (specification Spec) *)

AnimateStep == time' # time
TimerStep == timers' # timers
\* a resize that changes the size of the canvas
ResizeStep == canvas' # canvas

AtBound(rs) == Len(rs) >= MAX_CONCURRENT_RIPPLES(variant)

\* C1: the ripple pool never holds more than MAX_CONCURRENT_RIPPLES ripples, and
\* a createRipple call made while the pool is at the bound changes nothing: a
\* timer callback leaves the pool as it is, and a frame leaves it as its update
\* loop left it.
C1_PoolBound ==
  /\ [](Len(ripples) <= MAX_CONCURRENT_RIPPLES(variant))
  /\ [][/\ (TimerStep /\ AtBound(ripples)) => ripples' = ripples
        /\ (AnimateStep /\ AtBound(updateLoop(ripples, Len(ripples))))
              => ripples' = updateLoop(ripples, Len(ripples))]_vars

\* C1 witness: the pool is full and a timer callback that calls createRipple is due
C1_FullPoolTimerDue ==
  /\ Len(ripples) = MAX_CONCURRENT_RIPPLES(variant)
  /\ \E t \in timers : t.due <= now

RayInRange(ray) ==
  /\ ray.hitDistance # Null
  /\ 0 <= ray.hitDistance
  /\ ray.hitDistance <= ray.length

\* no obstacle of the scene has a point on the ray
NothingCrossed(ox, oy, angle, len, obs) ==
  \A j \in 1..Len(obs) : ~Crossed(ox, oy, angle, len, obs[j])

RaysClamped ==
  \A i \in 1..Len(rays) :
    /\ RayInRange(rays[i])
    /\ NothingCrossed(sunX, sunY, rays[i].angle, rays[i].length, obstacles)
         => rays[i].hitDistance = rays[i].length

SegmentsClamped ==
  \A i \in 1..Len(ripples) : \A k \in 1..Len(ripples[i].segments) :
    LET rp == ripples[i]
        seg == rp.segments[k]
    IN /\ seg.maxRadius # Null
       /\ 0 <= seg.maxRadius
       /\ seg.maxRadius <= rp.maxRadius
       /\ NothingCrossed(rp.x, rp.y, seg.angle, rp.maxRadius, obstacles)
            => seg.maxRadius = rp.maxRadius

\* C7: in every reachable state every ray has 0 <= hitDistance <= length and
\* every ripple segment has 0 <= maxRadius <= the ripple's maxRadius, a ray or
\* segment that no obstacle intersects holds exactly the maximum, and no value
\* is null.
C7_EveryState == RaysClamped /\ SegmentsClamped

\* every pooled ripple was built for the scene as it is now
RippleIsCurrent(rp) ==
  /\ rp.x = sunX
  /\ rp.y = sunY
  /\ rp.maxRadius = RippleMaxRadius(variant, canvas)
  /\ rp.segments = Ripple_calculateSegments(rp, obstacles, TrackedAngles)

\* C9: immediately after the resize handler the ripple pool is empty, so no
\* pooled ripple was precomputed for an earlier geometry.
C9_ResizeDiscards ==
  /\ [](\A i \in 1..Len(ripples) : RippleIsCurrent(ripples[i]))
  /\ [][ResizeStep => ripples' = << >>]_vars

\* C9 witness: a resize to a smaller canvas has just run (the rays still carry
\* the hit distances of the larger one) and the pool is empty
C9_JustResized ==
  /\ ripples = << >>
  /\ \E i \in 1..Len(rays) : rays[i].hitDistance > rays[i].length

Scaled(k) ==
  /\ canvas'.width = k * canvas.width
  /\ canvas'.height = k * canvas.height

\* the whole factors k > 1 by which one side of the model is a multiple of another
ScaleFactors == {k \in 2..WideSideSteps : \E a, b \in Sides : b = k * a}

-----------------------------------------------------------------------------
(* Properties of a ripple's life (specification SpecLife) *)

\* C2: repeated calls of update() on a ripple that starts at radius 0 and
\* opacity 1 return false after finitely many calls, and no call returns true
\* once the radius has reached or exceeded maxRadius.
C2_Lifecycle ==
  /\ probe.radius = 0 /\ probe.opacity = [num |-> 1, den |-> 1]
  /\ <>(~stillAlive)
  /\ [](probe.radius >= probe.maxRadius => (calls = 0 \/ ~stillAlive))
  /\ [][probe.radius >= probe.maxRadius => ~stillAlive']_vars

\* C2 witness: update() has returned false at its third call or later, and has
\* been called again on the ripple that ran past its maxRadius
C2_CalledPastTheEnd ==
  /\ calls >= 4
  /\ ~stillAlive
  /\ probe.maxRadius > 0
  /\ probe.radius >= probe.maxRadius + probe.speed

-----------------------------------------------------------------------------
(* Properties of the ray caster and of the ripple segments on arbitrary       *)
(* scenes (specification SpecGeom)                                            *)

\* C3: a ray whose path, from the sun up to ray.length, crosses no rectangle
\* and no circle of the scene has hitDistance = length and blocked = false
\* after checkObstacles, whatever its direction.
C3_NoCrossingNoHit ==
  time > 0 =>
    \A i \in 1..Len(rays) :
      NothingCrossed(sunX, sunY, rays[i].angle, rays[i].length, obstacles)
        => rays[i].hitDistance = rays[i].length /\ ~rays[i].blocked

\* the ray starts outside the rectangle and enters it before its own end
EntersRectangle(ray, rect) ==
  /\ rect.type = "building"
  /\ OutsideRectangle(sunX, sunY, rect)
  /\ RectangleCrossed(sunX, sunY, DirTable[ray.angle], ray.length, rect)
  /\ RectEnter(sunX, sunY, DirTable[ray.angle], rect) < ray.length

\* C4: for a rectangle that the ray, starting outside it, enters before its
\* end, checkObstacles reports blocked = true and a hitDistance no farther than
\* the entry; with that rectangle as the only obstacle the point at hitDistance
\* is on the rectangle's boundary and is the first point of the ray in the
\* rectangle (the point one grid step before it is outside).
C4_RectangleEntry ==
  time > 0 =>
    \A i \in 1..Len(rays) : \A j \in 1..Len(obstacles) :
      EntersRectangle(rays[i], obstacles[j]) =>
        LET d == DirTable[rays[i].angle]
            h == rays[i].hitDistance
        IN /\ rays[i].blocked
           /\ 0 < h
           /\ h <= RectEnter(sunX, sunY, d, obstacles[j])
           /\ Len(obstacles) = 1 =>
                /\ OnRectangleBoundary(sunX, sunY, d, h, obstacles[j])
                /\ ~InRectangle(sunX, sunY, d, h - 1, obstacles[j])

\* C4 witness: the rectangle x in [100,150], y in [100,200] alone, the ray from
\* (0,150) at angle 0 cast: blocked, hitDistance 100 px
C4_ExampleHit ==
  /\ time > 0
  /\ obstacles = <<rectPx(100, 100, 50, 100)>>
  /\ sunX = 0 /\ sunY = 150 * CU
  /\ rays[1].angle = 1
  /\ rays[1].blocked
  /\ rays[1].hitDistance = 100 * PX

\* C5: for a circle that the ray, starting outside it, points at the centre of
\* from distance D, with D - r within ray.length, checkObstacles yields a
\* hitDistance of D - r when the circle is the only obstacle, and no more than
\* D - r otherwise.
C5_CircleNearEdge ==
  time > 0 =>
    \A i \in 1..Len(rays) : \A j \in 1..Len(obstacles) :
      LET d == DirTable[rays[i].angle]
          circle == obstacles[j]
          near == CentreDistance(sunX, sunY, d, circle) - circle.radius * TS
      IN (/\ circle.type = "tree"
          /\ PointsAtCentre(sunX, sunY, d, circle)
          /\ PowerOfOrigin(circle.x - sunX, circle.y - sunY, circle.radius) > 0
          /\ near <= rays[i].length)
         => /\ rays[i].hitDistance <= near
            /\ Len(obstacles) = 1 => rays[i].hitDistance = near

Positive(t) == t # Null /\ t > 0

\* C6: whenever distanceToCircle, of SunRay or of Ripple (either script),
\* returns a positive distance t, the point t along the ray or segment lies on
\* the circle.
C6_PointOnCircle ==
  \A j \in 1..Len(obstacles) : obstacles[j].type = "tree" =>
    /\ \A i \in 1..Len(rays) :
         LET t == SunRay_distanceToCircle(rays[i], obstacles[j], sunX, sunY)
         IN Positive(t) => OnCircle(sunX, sunY, DirTable[rays[i].angle], t, obstacles[j])
    /\ \A i \in 1..Len(ripples) : \A k \in 1..Len(ripples[i].segments) :
         LET rp == ripples[i]
             angle == rp.segments[k].angle
             t == Ripple_distanceToCircle(rp, angle, obstacles[j])
             tc == Canyon_Ripple_distanceToCircle(rp, angle, obstacles[j])
         IN /\ Positive(t) => OnCircle(rp.x, rp.y, DirTable[angle], t, obstacles[j])
            /\ Positive(tc) => OnCircle(rp.x, rp.y, DirTable[angle], tc, obstacles[j])

\* C8: every segment's clipped radius is at most the ripple's maxRadius, and
\* strictly less when some obstacle lies along the segment's angle at a
\* distance below maxRadius from the ripple's origin.
C8_SegmentClipped ==
  \A i \in 1..Len(ripples) : \A k \in 1..Len(ripples[i].segments) :
    LET rp == ripples[i]
        seg == rp.segments[k]
    IN /\ seg.maxRadius <= rp.maxRadius
       /\ (\E j \in 1..Len(obstacles) :
              LiesAhead(rp.x, rp.y, seg.angle, rp.maxRadius, obstacles[j]))
            => seg.maxRadius < rp.maxRadius

-----------------------------------------------------------------------------
(* The map page, src/map.js (specification SpecMap).  An async load is two   *)
(* steps: the synchronous part up to the await of fetch, which leaves a       *)
(* record in pending, and the resumption when the response has arrived.  A    *)
(* response is "ok" (status 200 and a body that parses), "notOk" (a status    *)
(* outside 200-299) or "failed" (fetch rejected, or the body did not parse).  *)
(* The parsed body of a response is identified by the number of its fetch.    *)
(* The page contains the #map element, so initializeMap creates the map.      *)

MaxFetches == 4     \* fetches issued in one run
MaxCacheHits == 1   \* clicks served from the cache in one run

DetailOutcomes == {"ok", "notOk", "failed"}
OverviewOutcomes == {"ok", "failed"}

showInfoPanel(kind, subject) == [active |-> TRUE, kind |-> kind, subject |-> subject]

hideInfoPanel(panel) == [panel EXCEPT !.active = FALSE]

\* the panel is written only inside if (buurtenLayer) { ... }
showCityOverview(panel, layer, city) ==
  IF layer # NoLayer THEN showInfoPanel("city", <<city, 0>>) ELSE panel

\* config, read at line 484, is declared neither in the function nor at the
\* top level of the script: evaluating the title throws a ReferenceError
\* before showInfoPanel is called
showNeighborhoodOverview(panel, areaName) == [threw |-> TRUE, panel |-> panel]

overviewRequest(n, city) == [op |-> "overview", id |-> n, city |-> city, area |-> NoArea]

detailRequest(n, city, areaCode) == [op |-> "detail", id |-> n, city |-> city, area |-> areaCode]

\* L.geoJSON(buurtenData, ...) of loadMapData
overviewLayer(r) ==
  [kind |-> "overview", city |-> r.city, area |-> NoArea, data |-> r.id,
   id |-> <<"fetch", r.id>>, listening |-> TRUE]

\* L.geoJSON(sidewalkGeoJSON, ...) of displayNeighborhoodDetails
detailLayer(data, areaCode, id) ==
  [kind |-> "detail", city |-> areaCode[1], area |-> areaCode, data |-> data,
   id |-> id, listening |-> FALSE]

\* layer.off() on the feature layers still on the map
Silenced(l) == [l EXCEPT !.listening = FALSE]

\* the area's polygon is on the map with its click handler
Clickable(layers, areaCode) ==
  \E l \in layers : l.kind = "overview" /\ l.listening /\ areaCode \in AreasOf(l.city)

\* a plausible defect: the previous detail layer is not removed
displayNeighborhoodDetails_keepPrevious(buurtData, areaCode, id) ==
  /\ isDetailView' = TRUE
  /\ currentBuurtLayer' = detailLayer(buurtData, areaCode, id)
  /\ attachedLayers' = attachedLayers \cup {detailLayer(buurtData, areaCode, id)}
  /\ infoPanel' = showInfoPanel("detail", areaCode)

displayNeighborhoodDetails(buurtData, areaCode, id) ==
  /\ isDetailView' = TRUE
  /\ currentBuurtLayer' = detailLayer(buurtData, areaCode, id)
  /\ attachedLayers' = (attachedLayers \ {currentBuurtLayer})
                         \cup {detailLayer(buurtData, areaCode, id)}
  /\ infoPanel' = showInfoPanel("detail", areaCode)

\* the synchronous part of loadMapData: showLoading(), fetch(config.statsFile)
loadMapData_start(city) ==
  /\ loadingShown' = TRUE
  /\ pending' = pending \cup {overviewRequest(fetchCount + 1, city)}
  /\ fetchCount' = fetchCount + 1

InitMap ==
  /\ variant = "ripple"
  /\ canvas = [width |-> 0, height |-> 0]
  /\ sunX = 0
  /\ sunY = 0
  /\ horizonY = 0
  /\ obstacles = << >>
  /\ rays = << >>
  /\ ripples = << >>
  /\ lastRippleTime = 0
  /\ time = 0
  /\ now = Epoch
  /\ timers = {}
  /\ probe = NoProbe
  /\ stillAlive = TRUE
  /\ calls = 0
  /\ frameRequested = FALSE
  /\ listeners = {}
  /\ warned = FALSE
  /\ frame = << >>
  /\ uncaught = FALSE
  /\ lastSpawnTime = 0
  /\ MapNotLoaded

\* a plausible defect: the function without if (mapInitialized) return
initializeMap_unguarded ==
  /\ fetchCount < MaxFetches
  /\ mapInitialized' = TRUE
  /\ loadMapData_start(currentCity)
  /\ UNCHANGED <<currentCity, buurtenLayer, currentBuurtLayer, attachedLayers,
                 loadedBuurten, isDetailView, infoPanel, hitCount, rejected>>
  /\ UNCHANGED sceneVars

\* initializeMap(), called on DOMContentLoaded and by the visibility triggers
initializeMap ==
  /\ IF mapInitialized
     THEN UNCHANGED <<mapInitialized, loadingShown, pending, fetchCount>>
     ELSE /\ mapInitialized' = TRUE
          /\ loadMapData_start(currentCity)
  /\ UNCHANGED <<currentCity, buurtenLayer, currentBuurtLayer, attachedLayers,
                 loadedBuurten, isDetailView, infoPanel, hitCount, rejected>>
  /\ UNCHANGED sceneVars

\* switchCity(cityId), the 'change' listener of #citySelector
switchCity(cityId) ==
  /\ mapInitialized
  /\ cityId # currentCity
  /\ fetchCount < MaxFetches
  /\ currentCity' = cityId
  /\ buurtenLayer' = NoLayer
  /\ currentBuurtLayer' = NoLayer
  /\ attachedLayers' = {Silenced(l) : l \in attachedLayers \ {buurtenLayer, currentBuurtLayer}}
  /\ loadedBuurten' = [a \in AllAreas |-> NoData]
  /\ isDetailView' = FALSE
  /\ infoPanel' = hideInfoPanel(infoPanel)
  /\ loadMapData_start(cityId)
  /\ UNCHANGED <<mapInitialized, hitCount, rejected>>
  /\ UNCHANGED sceneVars

\* a plausible defect: the cache is never consulted
loadedBuurten_has_never(cache, areaCode) == FALSE

\* loadedBuurten.has(areaCode)
loadedBuurten_has(cache, areaCode) == cache[areaCode] # NoData

\* a plausible defect: a click on an area whose fetch is in flight issues none
loadNeighborhoodDetails_start_dedup(areaCode) ==
  /\ Clickable(attachedLayers, areaCode)
  /\ IF loadedBuurten_has(loadedBuurten, areaCode)
     THEN /\ hitCount < MaxCacheHits
          /\ displayNeighborhoodDetails(loadedBuurten[areaCode], areaCode,
                                        <<"hit", hitCount + 1>>)
          /\ hitCount' = hitCount + 1
          /\ loadingShown' = FALSE
          /\ UNCHANGED <<pending, fetchCount>>
     ELSE /\ fetchCount < MaxFetches
          /\ \A r \in pending : r.area # areaCode
          /\ loadingShown' = TRUE
          /\ pending' = pending \cup {detailRequest(fetchCount + 1, currentCity, areaCode)}
          /\ fetchCount' = fetchCount + 1
          /\ UNCHANGED <<isDetailView, currentBuurtLayer, attachedLayers, infoPanel,
                         hitCount>>
  /\ UNCHANGED <<currentCity, mapInitialized, buurtenLayer, loadedBuurten, rejected>>
  /\ UNCHANGED sceneVars

\* the 'click' handler of an area: loadNeighborhoodDetails up to its first
\* await, or to its end when the cache has the key
loadNeighborhoodDetails_start(areaCode) ==
  /\ Clickable(attachedLayers, areaCode)
  /\ IF loadedBuurten_has(loadedBuurten, areaCode)
     THEN /\ hitCount < MaxCacheHits
          /\ displayNeighborhoodDetails(loadedBuurten[areaCode], areaCode,
                                        <<"hit", hitCount + 1>>)
          /\ hitCount' = hitCount + 1
          /\ loadingShown' = FALSE
          /\ UNCHANGED <<pending, fetchCount>>
     ELSE /\ fetchCount < MaxFetches
          /\ loadingShown' = TRUE
          /\ pending' = pending \cup {detailRequest(fetchCount + 1, currentCity, areaCode)}
          /\ fetchCount' = fetchCount + 1
          /\ UNCHANGED <<isDetailView, currentBuurtLayer, attachedLayers, infoPanel,
                         hitCount>>
  /\ UNCHANGED <<currentCity, mapInitialized, buurtenLayer, loadedBuurten, rejected>>
  /\ UNCHANGED sceneVars

\* a plausible defect: hideLoading() as the last statement of the try block
loadNeighborhoodDetails_resume_hideInTry(r, outcome) ==
  /\ r \in pending
  /\ r.op = "detail"
  /\ pending' = pending \ {r}
  /\ IF outcome = "ok"
     THEN /\ loadedBuurten' = [loadedBuurten EXCEPT ![r.area] = r.id]
          /\ displayNeighborhoodDetails(r.id, r.area, <<"fetch", r.id>>)
          /\ UNCHANGED rejected
     ELSE LET inTry == showNeighborhoodOverview(infoPanel, r.area)
              thrown == outcome = "failed" \/ inTry.threw
              shown == IF outcome = "notOk" THEN inTry.panel ELSE infoPanel
              inCatch == showNeighborhoodOverview(shown, r.area)
          IN /\ infoPanel' = IF thrown THEN inCatch.panel ELSE shown
             /\ rejected' = IF thrown /\ inCatch.threw
                            THEN rejected \cup {r.id} ELSE rejected
             /\ UNCHANGED <<loadedBuurten, isDetailView, currentBuurtLayer,
                            attachedLayers>>
  /\ loadingShown' = (outcome # "ok" /\ loadingShown)
  /\ UNCHANGED <<currentCity, mapInitialized, buurtenLayer, fetchCount, hitCount>>
  /\ UNCHANGED sceneVars

\* loadNeighborhoodDetails resumed with the response of its fetch
loadNeighborhoodDetails_resume(r, outcome) ==
  /\ r \in pending
  /\ r.op = "detail"
  /\ pending' = pending \ {r}
  /\ IF outcome = "ok"
     THEN /\ loadedBuurten' = [loadedBuurten EXCEPT ![r.area] = r.id]
          /\ displayNeighborhoodDetails(r.id, r.area, <<"fetch", r.id>>)
          /\ UNCHANGED rejected
     ELSE LET inTry == showNeighborhoodOverview(infoPanel, r.area)
              thrown == outcome = "failed" \/ inTry.threw
              shown == IF outcome = "notOk" THEN inTry.panel ELSE infoPanel
              inCatch == showNeighborhoodOverview(shown, r.area)
          IN /\ infoPanel' = IF thrown THEN inCatch.panel ELSE shown
             /\ rejected' = IF thrown /\ inCatch.threw
                            THEN rejected \cup {r.id} ELSE rejected
             /\ UNCHANGED <<loadedBuurten, isDetailView, currentBuurtLayer,
                            attachedLayers>>
  /\ loadingShown' = FALSE
  /\ UNCHANGED <<currentCity, mapInitialized, buurtenLayer, fetchCount, hitCount>>
  /\ UNCHANGED sceneVars

\* loadMapData resumed with the response of its fetch
loadMapData_resume(r, outcome) ==
  /\ r \in pending
  /\ r.op = "overview"
  /\ pending' = pending \ {r}
  /\ buurtenLayer' = IF outcome = "ok" THEN overviewLayer(r) ELSE buurtenLayer
  /\ attachedLayers' = IF outcome = "ok" THEN attachedLayers \cup {overviewLayer(r)}
                       ELSE attachedLayers
  /\ loadingShown' = FALSE
  /\ infoPanel' = IF ~isDetailView
                  THEN showCityOverview(infoPanel, buurtenLayer', currentCity)
                  ELSE infoPanel
  /\ UNCHANGED <<currentCity, mapInitialized, currentBuurtLayer, loadedBuurten,
                 isDetailView, fetchCount, hitCount, rejected>>
  /\ UNCHANGED sceneVars

\* the "Return to Overview" button, which is part of the detail panel
returnToOverview ==
  /\ infoPanel.active
  /\ infoPanel.kind = "detail"
  /\ isDetailView' = FALSE
  /\ attachedLayers' = attachedLayers \ {currentBuurtLayer}
  /\ currentBuurtLayer' = NoLayer
  /\ infoPanel' = showCityOverview(infoPanel, buurtenLayer, currentCity)
  /\ UNCHANGED <<currentCity, mapInitialized, buurtenLayer, loadedBuurten,
                 loadingShown, pending, fetchCount, hitCount, rejected>>
  /\ UNCHANGED sceneVars

NextMap ==
  \/ initializeMap
  \/ \E c \in Cities : switchCity(c)
  \/ \E a \in AllAreas : loadNeighborhoodDetails_start(a)
  \/ \E r \in pending, o \in DetailOutcomes : loadNeighborhoodDetails_resume(r, o)
  \/ \E r \in pending, o \in OverviewOutcomes : loadMapData_resume(r, o)
  \/ returnToOverview

SpecMap == InitMap /\ [][NextMap]_vars

-----------------------------------------------------------------------------
(* Claims about the map page, checked under SpecMap.                          *)

\* the step resumes the detail load r and does not take its success path
DetailEndsWithoutData(r) ==
  /\ r.op = "detail"
  /\ r \notin pending'
  /\ currentBuurtLayer'.id # <<"fetch", r.id>>

\* C11: when the detail file of a clicked area is missing (non-OK response) or
\* its fetch fails, loadNeighborhoodDetails ends with the "overview only" info
\* panel of that area displayed, and no error escapes the operation.
C11_MissingDetailFallsBack ==
  [][\A r \in pending :
       DetailEndsWithoutData(r) =>
         /\ infoPanel' = showInfoPanel("overviewOnly", r.area)
         /\ rejected' = rejected]_vars

\* the step resumes the overview load r and does not take its success path
OverviewEndsWithoutData(r) ==
  /\ r.op = "overview"
  /\ r \notin pending'
  /\ buurtenLayer'.id # <<"fetch", r.id>>

\* C12: a network or parse failure while loading the city overview is caught
\* inside loadMapData and surfaced to the user as a visible message about the
\* failure; the error does not leave the load and the map stays usable.
C12_OverviewFailureSurfaced ==
  [][\A r \in pending :
       OverviewEndsWithoutData(r) =>
         /\ infoPanel'.active
         /\ infoPanel'.kind = "error"
         /\ rejected' = rejected
         /\ mapInitialized']_vars

\* a fetch is issued in the step
FetchIssued == fetchCount' # fetchCount

\* a load operation runs to its end in the step
LoadEnds == (\E r \in pending : r \notin pending') \/ hitCount' # hitCount

\* C13: every load operation shows the loading indicator before it fetches and
\* hides it when it finishes (success, cache hit, non-OK response or thrown
\* error); so whenever no load is in flight the indicator is hidden.
C13_LoadingToggle ==
  /\ [][FetchIssued => loadingShown']_vars
  /\ [][LoadEnds => ~loadingShown']_vars
  /\ [](pending = {} => ~loadingShown)

C13_AllLoadsEnded ==
  /\ pending = {}
  /\ fetchCount = MaxFetches
  /\ rejected # {}
  /\ hitCount > 0
  /\ ~loadingShown

\* the step is a click served from the cache, for area a
CacheHitClick(a) ==
  /\ hitCount' # hitCount
  /\ currentBuurtLayer'.area = a

\* the step parses the OK response of the detail fetch r
ParsedOk(r) ==
  /\ r.op = "detail"
  /\ r \notin pending'
  /\ currentBuurtLayer'.id = <<"fetch", r.id>>

\* C14: a click on an area whose identifier is a key of loadedBuurten displays
\* the cached data and issues no fetch (no fetch is ever issued for a cached
\* key); an identifier becomes a key only in a step that parses a successful
\* response for it.
C14_CacheServesAndFills ==
  /\ [][\A r \in pending' \ pending :
          r.op = "detail" => loadedBuurten[r.area] = NoData]_vars
  /\ [][\A a \in AllAreas :
          CacheHitClick(a) =>
            /\ loadedBuurten[a] # NoData
            /\ currentBuurtLayer'.data = loadedBuurten[a]
            /\ currentBuurtLayer' \in attachedLayers'
            /\ infoPanel' = showInfoPanel("detail", a)
            /\ isDetailView'
            /\ fetchCount' = fetchCount
            /\ pending' = pending]_vars
  /\ [][\A a \in AllAreas :
          (loadedBuurten[a] = NoData /\ loadedBuurten'[a] # NoData) =>
            \E r \in pending :
              ParsedOk(r) /\ r.area = a /\ loadedBuurten'[a] = r.id]_vars

C14_ServedFromCache ==
  /\ hitCount > 0
  /\ currentBuurtLayer.id = <<"hit", hitCount>>
  /\ currentBuurtLayer.data = loadedBuurten[currentBuurtLayer.area]
  /\ fetchCount < MaxFetches

\* the detail fetches in flight for area a
PendingFor(a) == {r \in pending : r.op = "detail" /\ r.area = a}

\* C15: the cache does not deduplicate in-flight requests: while a fetch for an
\* uncached area is in flight, a further click on that area issues one more
\* fetch for the same key; and the response of every fetch in flight, when it
\* is OK, is written to the cache and displayed, whatever the cache holds by
\* then.
C15_NoDeduplication ==
  \A a \in AllAreas :
    /\ ( /\ PendingFor(a) # {}
         /\ loadedBuurten[a] = NoData
         /\ Clickable(attachedLayers, a)
         /\ fetchCount < MaxFetches )
       => ENABLED ( /\ loadNeighborhoodDetails_start(a)
                    /\ Cardinality({r \in pending' : r.op = "detail" /\ r.area = a})
                         = Cardinality(PendingFor(a)) + 1 )
    /\ \A r \in PendingFor(a) :
         ENABLED ( /\ loadNeighborhoodDetails_resume(r, "ok")
                   /\ loadedBuurten'[a] = r.id
                   /\ currentBuurtLayer'.data = r.id
                   /\ currentBuurtLayer' \in attachedLayers'
                   /\ infoPanel' = showInfoPanel("detail", a) )

\* one response for an area is in the cache while another fetch for the same
\* area, issued before the first resolved, is still in flight
C15_SecondResponseOutstanding ==
  \E a \in AllAreas : \E r \in PendingFor(a) :
    /\ loadedBuurten[a] # NoData
    /\ loadedBuurten[a] < r.id
    /\ currentBuurtLayer.data = loadedBuurten[a]

\* the step is a use of "Return to Overview" in detail view
ReturnStep == isDetailView /\ ~isDetailView' /\ currentCity' = currentCity

\* C16: returnToOverview returns the map to the city view from any state:
\* immediately afterwards isDetailView is false, no detail layer is attached
\* to the map and the info panel shows the overview of the current city.
C16_ReturnShowsCityView ==
  [][ReturnStep =>
       /\ ~isDetailView'
       /\ \A l \in attachedLayers' : l.kind # "detail"
       /\ infoPanel' = showInfoPanel("city", <<currentCity, 0>>)]_vars

-----------------------------------------------------------------------------
(* Claims about the start of the animation scripts, checked under Spec.       *)

\* C17: when the canvas element is absent at page load, initialization stops
\* after logging a warning: no animation frame is ever requested or run, no
\* resize or pointer listener is registered, no ripple timer is started, and
\* no exception is thrown.
C17_MissingCanvasStopsQuietly ==
  canvas = NoCanvas =>
    /\ warned
    /\ ~uncaught
    /\ ~frameRequested
    /\ time = 0
    /\ listeners = {}
    /\ timers = {}
    /\ ripples = << >>

-----------------------------------------------------------------------------
(* Further claims about the casting of one ray and one segment, checked      *)
(* under SpecGeom.                                                            *)

\* what the script's own intersection routines report for the obstacles along
\* the angle, within the ripple's range
HitsInRange(rp, angle, obs) ==
  {t \in {Ripple_distance(rp, angle, obs[j]) : j \in 1..Len(obs)} :
     Truthy(t) /\ t < rp.maxRadius}

Least(S) == CHOOSE t \in S : \A u \in S : t <= u

\* C18: for every origin, angle and obstacle list, in every ordering of the
\* list, findObstacleDistance returns the shrink factor (0.9) times the
\* minimum positive intersection distance over all obstacles along the angle,
\* or the ripple's maxRadius when no obstacle intersects within range.
C18_ShrunkMinimum ==
  \A i \in 1..Len(ripples) : \A k \in 1..Len(ripples[i].segments) :
    LET rp == ripples[i]
        seg == rp.segments[k]
        hits == HitsInRange(rp, seg.angle, obstacles)
    IN seg.maxRadius = IF hits = {} THEN rp.maxRadius
                       ELSE (Least(hits) * ShrinkNum) \div ShrinkDen

\* Math.abs(u) < 1e-6, for the component n/den of a direction
Negligible(n, den) == Abs(n) * 1000000 < den

\* rayHitsRect of isShaded: the slab test limited to the segment of length L
rayHitsRect(sx, sy, d, L, r) ==
  LET left == r.x
      right == r.x + r.width
      top == r.y
      bottom == r.y + r.height
      xPar == Negligible(d.dx, d.den)
      yPar == Negligible(d.dy, d.den)
      tx1 == IF xPar THEN 0 ELSE Along(left, sx, d.dx, d.den)
      tx2 == IF xPar THEN 0 ELSE Along(right, sx, d.dx, d.den)
      nearX == IF xPar THEN 0 ELSE Max(0, Min(tx1, tx2))
      farX == IF xPar THEN L ELSE Min(L, Max(tx1, tx2))
      xMiss == IF xPar THEN sx < left \/ sx > right ELSE nearX > farX
      ty1 == IF yPar THEN 0 ELSE Along(top, sy, d.dy, d.den)
      ty2 == IF yPar THEN 0 ELSE Along(bottom, sy, d.dy, d.den)
      tNear == IF yPar THEN nearX ELSE Max(nearX, Min(ty1, ty2))
      tFar == IF yPar THEN farX ELSE Min(farX, Max(ty1, ty2))
      yMiss == IF yPar THEN sy < top \/ sy > bottom ELSE tNear > tFar
  IN ~xMiss /\ ~yMiss /\ tNear > 0 /\ tNear < L

\* rayHitsCircle of isShaded: t = dot - sqrt(disc), with dot and sqrt(disc)
\* both doubled so that the square root is taken of the same number as in
\* SunRay.distanceToCircle
rayHitsCircle(sx, sy, d, L, c) ==
  LET cx == c.x - sx
      cy == c.y - sy
      dot2 == 2 * (d.dx * cx + d.dy * cy)
      disc4 == dot2 * dot2 - 4 * d.den * d.den * (cx * cx + cy * cy - c.radius * c.radius)
      t == (dot2 - Sqrt(disc4)) * (TS \div (2 * d.den))
  IN disc4 >= 0 /\ t > 0 /\ t < L

\* isShaded(px, py) for the point (px, py) at distance L > 0 from the sun in
\* the direction angle: (ux, uy) is that direction and Math.hypot gives L
isShaded(sx, sy, angle, L, obs) ==
  \E j \in 1..Len(obs) :
    \/ obs[j].type = "building" /\ rayHitsRect(sx, sy, DirTable[angle], L, obs[j])
    \/ obs[j].type = "tree" /\ rayHitsCircle(sx, sy, DirTable[angle], L, obs[j])

\* C19: the shading test of the pedestrians is the ray caster's occlusion test:
\* for every target point and obstacle set, isShaded returns true exactly when
\* a SunRay cast from the sun towards the point, with length equal to the
\* distance of the point, is reported blocked by some obstacle.
C19_SameOcclusionTest ==
  time = 1 =>
    \A i \in 1..Len(rays) :
      rays[i].blocked <=> isShaded(sunX, sunY, rays[i].angle, rays[i].length, obstacles)

-----------------------------------------------------------------------------
(* Claims about the timing of the ripples, checked under Spec.                *)

\* the frame of the step pushed a ripple at the sun
SpawnedInFrame ==
  \E i \in 1..Len(ripples') :
    /\ ripples'[i].radius = 0
    /\ ripples'[i].x = sunX
    /\ ripples'[i].y = sunY

\* after the frame the pool is still below its bound
RoomLeft == Len(ripples') < MAX_CONCURRENT_RIPPLES(variant)

\* C20 (as stated): updateRipples spawns a ripple in a frame only if the time
\* elapsed since the most recent ripple spawn, by the driver or by an explicit
\* trigger, exceeds RIPPLE_INTERVAL; and whenever it does and the pool is below
\* its bound, a ripple is spawned in that frame.
C20_SinceMostRecentSpawn ==
  [][AnimateStep =>
       /\ SpawnedInFrame => now - lastSpawnTime > RIPPLE_INTERVAL
       /\ (now - lastSpawnTime > RIPPLE_INTERVAL /\ RoomLeft) => SpawnedInFrame]_vars

\* C20 (amended): updateRipples spawns a ripple in a frame only if the time
\* elapsed since lastRippleTime, the driver's own most recent spawn attempt,
\* exceeds RIPPLE_INTERVAL; whenever it does and the pool is below its bound,
\* a ripple is spawned in that frame; and lastRippleTime becomes the time of
\* that frame.
C20_SinceDriverAttempt ==
  [][AnimateStep =>
       /\ SpawnedInFrame => now - lastRippleTime > RIPPLE_INTERVAL
       /\ (now - lastRippleTime > RIPPLE_INTERVAL /\ RoomLeft) => SpawnedInFrame
       /\ lastRippleTime' = IF now - lastRippleTime > RIPPLE_INTERVAL
                            THEN now ELSE lastRippleTime]_vars

\* the driver has spawned in a frame at the very time at which a start-up
\* timer had spawned
C20_DriverSpawnedAfterTrigger ==
  /\ FirstTimer \notin timers
  /\ lastRippleTime = now
  /\ lastSpawnTime = now
  /\ Cardinality({i \in 1..Len(ripples) : ripples[i].radius = 0}) = 1
  /\ Cardinality({i \in 1..Len(ripples) : ripples[i].radius = RippleSpeed}) >= 1

\* every ripple of the pool after one call of update(), with the value returned
Advanced(rs) == [i \in 1..Len(rs) |-> Ripple_update(rs[i])]

\* those that returned true, in the order of the pool
Survivors(rs) ==
  LET alive == SelectSeq(Advanced(rs), LAMBDA u : u.alive)
  IN [i \in 1..Len(alive) |-> alive[i].ripple]

\* C21: in each call of updateRipples every ripple of the pool is advanced
\* exactly once, and afterwards the pool holds exactly those whose update
\* returned true (radius < maxRadius and opacity > 0.01), in their original
\* order; the only other ripple the pool may hold is the one the call pushed.
C21_AdvancedOnceSurvivorsKept ==
  [][AnimateStep =>
       LET kept == Survivors(ripples)
       IN /\ Len(ripples') \in {Len(kept), Len(kept) + 1}
          /\ SubSeq(ripples', 1, Len(kept)) = kept
          /\ Len(ripples') = Len(kept) + 1 => ripples'[Len(ripples')].radius = 0
          /\ \A i \in 1..Len(ripples) :
               Advanced(ripples)[i].ripple.radius = ripples[i].radius + ripples[i].speed
          /\ \A i \in 1..Len(kept) :
               kept[i].radius < kept[i].maxRadius /\ Visible(kept[i].opacity)
          /\ Len(kept) = Cardinality({i \in 1..Len(ripples) :
                 /\ ripples[i].radius + ripples[i].speed < ripples[i].maxRadius
                 /\ Visible(Advanced(ripples)[i].ripple.opacity)})]_vars

\* frames have advanced two ripples of different age, and the pool no longer
\* starts with a ripple as old as the animation
C21_RemovedInPlace ==
  /\ time >= 1
  /\ Len(ripples) >= 2
  /\ ripples[1].radius > ripples[2].radius
  /\ ripples[2].radius > 0
  /\ ripples[1].radius < time * RippleSpeed

------------------------------------------------------------------------------
(* The order of a frame, checked under SpecFrame.                             *)

\* the steps of a frame in the order stated: ripples advanced and drawn,
\* obstacle shadows, rays updated and drawn, sun, obstacle silhouettes,
\* pedestrians advanced and drawn, cyclists advanced and drawn, the clock,
\* the request of the next frame
FrameOrder ==
  <<"updateRipples", "drawRipples", "drawShadows", "rays", "drawSun",
    "drawHorizonCityscape", "updatePedestrians", "drawPedestrians",
    "drawCyclists", "time", "requestAnimationFrame">>

\* shadows, pedestrians and cyclists exist in the street scene of ripple.js only
StreetSceneOnly == {"drawShadows", "updatePedestrians", "drawPedestrians", "drawCyclists"}

\* the steps of FrameOrder that variant v has, in that order
FrameOrderOf(v) ==
  SelectSeq(FrameOrder, LAMBDA st : v = "ripple" \/ st \notin StreetSceneOnly)

\* the statements of fr that FrameOrder names
Named(fr) == SelectSeq(fr, LAMBDA st : \E k \in 1..Len(FrameOrder) : FrameOrder[k] = st)

IsPrefix(a, b) == Len(a) <= Len(b) /\ SubSeq(b, 1, Len(a)) = a

\* the step executes a statement of animate()
StatementStep == frame' # frame

\* the step is the one that requests the next frame
RequestStep == ~frameRequested /\ frameRequested'

\* what a frame's statements do, each in its own step: ripples are advanced by
\* updateRipples, rays by the ray loop, the clock by one increment
EffectsInPlace ==
  /\ StatementStep /\ ripples' # ripples => frame'[Len(frame')] = "updateRipples"
  /\ StatementStep /\ rays' # rays => frame'[Len(frame')] = "rays"
  /\ time' # time => time' = time + 1 /\ frame'[Len(frame')] = "time"
  /\ RequestStep => frame'[Len(frame')] = "requestAnimationFrame"

\* C22 as stated: every frame, of either script, performs all of the steps of
\* FrameOrder, in that order, the clock advanced once and last before the one
\* request of the next frame.
C22_OneFixedOrder ==
  [][/\ StatementStep => IsPrefix(Named(frame'), FrameOrder)
     /\ RequestStep => Named(frame') = FrameOrder
     /\ EffectsInPlace]_vars

\* C22: every frame performs the steps its script has, each once, in the one
\* fixed order of FrameOrder (shadows, pedestrians and cyclists exist in the
\* street scene of ripple.js only); the clock is advanced once, by its fixed
\* increment, after all drawing, and then the one next frame is requested.
C22_FixedOrderOfStepsPresent ==
  [][/\ StatementStep => IsPrefix(Named(frame'), FrameOrderOf(variant))
     /\ RequestStep => Named(frame') = FrameOrderOf(variant)
     /\ EffectsInPlace]_vars

\* a frame of the script without shadows and pedestrians has run, statement by
\* statement, to its request of the next frame
C22_ShortFrameDone ==
  /\ time >= 2
  /\ frameRequested
  /\ Named(frame) = FrameOrderOf(variant)
  /\ Len(FrameOrderOf(variant)) < Len(FrameOrder)

------------------------------------------------------------------------------
(* The set of rays, checked under Spec.                                       *)

\* C23: the rays are created once: whatever frames and resizes follow, there
\* are as many rays as were configured, every ray keeps its angle and its base
\* opacity, and a resize changes nothing of a ray but its length, which becomes
\* min(width, height) * 1.1; no other step changes a length.
C23_RaysCreatedOnce ==
  [][/\ Len(rays') = Len(rays)
     /\ rays # << >> => Len(rays') = Len(TrackedAngles)
     /\ \A i \in 1..Len(rays) :
          /\ rays'[i].angle = rays[i].angle
          /\ rays'[i].angle = TrackedAngles[i]
          /\ rays'[i].baseOpacity = rays[i].baseOpacity
          /\ canvas' = canvas => rays'[i].length = rays[i].length
          /\ canvas' # canvas =>
               /\ rays'[i].length * 10 = Min(canvas'.width, canvas'.height) * 11 * PX
               /\ rays'[i] = [rays[i] EXCEPT !.length = rays'[i].length]]_vars

\* after frames and a resize to another size, a ray that an obstacle blocks
\* still carries the hit distance of the old size
C23_ResizedBlockedRay ==
  /\ time >= 2
  /\ \E i \in 1..Len(rays) :
       /\ rays[i].blocked
       /\ rays[i].baseOpacity # rays[1].baseOpacity
       /\ rays[i].length * 10 = Min(canvas.width, canvas.height) * 11 * PX
       /\ rays[i].hitDistance # SunRay_update(rays[i], obstacles, sunX, sunY).hitDistance

------------------------------------------------------------------------------
(* A ripple from frame to frame, checked under SpecLife.                      *)

\* a <= b for opacities; the denominators are equal or one of them is 1
OpacityLeq(a, b) ==
  IF a.den = b.den THEN a.num <= b.num ELSE a.num * b.den <= b.num * a.den

\* C24: on every frame the radius of a ripple grows by exactly its speed, which
\* is fixed, and so never decreases; its opacity never increases from one frame
\* to the next; and its opacity is always within [0, 1].
C24_GrowsAndFades ==
  /\ [](/\ probe.opacity.den > 0
        /\ 0 <= probe.opacity.num
        /\ probe.opacity.num <= probe.opacity.den)
  /\ [][/\ probe'.speed = probe.speed
        /\ probe'.radius = probe.radius + probe.speed
        /\ probe'.radius >= probe.radius
        /\ OpacityLeq(probe'.opacity, probe.opacity)]_vars

\* the ripple has grown past its maximum radius, one speed a call, and its
\* opacity was held at 0
C24_FadedOut ==
  /\ calls >= 2
  /\ calls < MaxLifeCalls
  /\ probe.maxRadius > 0
  /\ probe.radius = calls * probe.speed
  /\ probe.radius > probe.maxRadius
  /\ probe.opacity.num = 0

------------------------------------------------------------------------------
(* Overlapping loads of the map page, checked under SpecMap.                  *)

OverviewInFlight == \E r \in pending : r.op = "overview"

OverviewLayers == {l \in attachedLayers : l.kind = "overview"}

\* C25: once no overview fetch is in flight, at most one overview layer is
\* attached to the map, buurtenLayer refers to it, and it was built from the
\* data of the current city.
C25_OneOverviewOfCurrentCity ==
  ~OverviewInFlight =>
    /\ Cardinality(OverviewLayers) <= 1
    /\ \A l \in OverviewLayers : buurtenLayer = l /\ l.city = currentCity

DetailLayers(layers) == {l \in layers : l.kind = "detail"}

\* the step resumes the detail load r, which was started for a city that
\* switchCity has left since
StaleDetailResumes(r) ==
  /\ r.op = "detail"
  /\ r.city # currentCity
  /\ r \notin pending'

\* C26: the response of a detail fetch started before a city switch, arriving
\* after the switch, does not put the map into detail view, attaches no detail
\* layer, and adds no entry for the previous city's area to the detail cache.
C26_StaleDetailIgnored ==
  [][\A r \in pending :
       StaleDetailResumes(r) =>
         /\ isDetailView' = isDetailView
         /\ DetailLayers(attachedLayers') = DetailLayers(attachedLayers)
         /\ loadedBuurten'[r.area] = NoData]_vars

DetailInFlight == \E r \in pending : r.op = "detail"

\* C27: when two areas were clicked one after the other, the second before the
\* first fetch had resolved, then once both fetches have resolved the detail
\* layer and the info panel are those of the area clicked last: the layer on
\* screen comes from the newest fetch among those whose data arrived.
C27_LastClickShown ==
  (~DetailInFlight /\ isDetailView /\ currentBuurtLayer.id[1] = "fetch") =>
    /\ \A a \in AllAreas : loadedBuurten[a] <= currentBuurtLayer.data
    /\ infoPanel.kind = "detail" /\ infoPanel.subject = currentBuurtLayer.area

\* C28: the loading indicator is visible whenever at least one overview or
\* detail fetch is in flight.
C28_ShownWhileInFlight == pending # {} => loadingShown

\* C29: in every state between event handlers, 1 detail layer is attached to
\* the map when isDetailView is true, and none when it is false.
C29_DetailLayerIffDetailView ==
  Cardinality(DetailLayers(attachedLayers)) = (IF isDetailView THEN 1 ELSE 0)

\* the detail of one area is on screen after the detail of another area was
\* fetched and shown while the first fetch was still in flight or shown
C29_SecondDetailShown ==
  /\ isDetailView
  /\ currentBuurtLayer \in attachedLayers
  /\ \E a \in AllAreas :
       /\ a # currentBuurtLayer.area
       /\ loadedBuurten[a] # NoData
       /\ loadedBuurten[currentBuurtLayer.area] # NoData

------------------------------------------------------------------------------
(* Initialization of the map page, checked under SpecMap.                     *)

\* the overview loads the step issues
OverviewIssued == {r \in pending' \ pending : r.op = "overview"}

\* C30: however many initialization triggers fire, and whenever, the Leaflet
\* map is created at most once and the initial loadMapData is issued at most
\* once: the map once created stays, the step that creates it issues one
\* overview load, and afterwards an overview load is issued by a city switch
\* only.
C30_InitializedOnce ==
  [][/\ mapInitialized => mapInitialized'
     /\ ~mapInitialized /\ mapInitialized' => Cardinality(OverviewIssued) = 1
     /\ ~mapInitialized' => OverviewIssued = {}
     /\ mapInitialized /\ OverviewIssued # {} => currentCity' # currentCity]_vars

\* the map exists, its initial load has ended and is the only load issued so
\* far, and a further trigger may call initializeMap
C30_TriggerAfterInitialLoad ==
  /\ mapInitialized
  /\ fetchCount = 1
  /\ pending = {}
  /\ buurtenLayer # NoLayer
  /\ ENABLED initializeMap

====
